---- MODULE Spec2Model ----
\* A model of chatterbot/storage/mongodb.py: the MongoDatabaseAdapter and the
\* MongoDB collection of statement documents it reads and writes.
\*
\* A stored document is a function from the field names it carries to their
\* values (a Python dict); a field that was never written is simply not in the
\* document's domain.  The collection is the sequence of its documents in
\* natural (insertion) order, which is the order find() yields them in when no
\* sort is requested and the order in which update_one / delete_one look for
\* their first match.
EXTENDS Integers, Sequences, FiniteSets, TLC

VARIABLES
    statements,     \* self.statements: the collection, in natural order
    next_id,        \* the next _id the backend assigns on an insert
    op,             \* the adapter call that produced this state, with its arguments
    result,         \* what that call gave back to its caller
    repeated_update,\* history: the last two calls were updates of one text
                    \* whose serialized fields differ
    queries,        \* the Query objects built so far; the first is the
                    \* adapter's base_query
    heap,           \* the nested dicts that queries refer to, by address
    calls,          \* per concurrent caller, the adapter call it is in or
                    \* has last completed
    log,            \* what the adapter's logger has been given
    adapter,        \* the adapter object: how far its construction is and
                    \* the attributes construction has set
    caller_order_by \* the list object a caller passes to filter as order_by

\* The state outside the collection and the last call.
apart == <<queries, heap, calls, log, adapter, caller_order_by>>

vars == <<statements, next_id, op, result, repeated_update, apart>>

-----------------------------------------------------------------------------
\* Bounds and input sets

\* The number of inserts the backend performs in one behaviour.
MaxId == 2

\* The number of Query objects built in one behaviour, the base query
\* included.
MaxQueries == 4

\* The most entries the log is followed for.
MaxLog == 2

\* Python's None.
Null == "None"

Texts == {"a", "b"}

\* The created_at values of the statements whose ordering is explored, and
\* the one created_at value of the statements whose storage is explored.
Times == {1, 2}
Today == {1}

\* The confidence a caller may put on a statement; 0 is the default.
Confidences == {0, 5}

\* The in_response_to values a statement object may carry.
Responses == {Null, "a"}

-----------------------------------------------------------------------------
\* Python dict helpers

EmptyDict == [f \in {} |-> Null]

\* dict.update(data): keys of data overwrite, the others are kept.
DictUpdate(d, data) ==
    [f \in (DOMAIN d) \cup (DOMAIN data) |-> IF f \in DOMAIN data THEN data[f] ELSE d[f]]

\* A dict given as, per key, the set holding its value or the empty set when
\* the key is not supplied.
KwargsOf(opt) ==
    [f \in {g \in DOMAIN opt : opt[g] # {}} |-> CHOOSE v \in opt[f] : TRUE]

\* dict.get(key, default)
Get(d, f, default) == IF f \in DOMAIN d THEN d[f] ELSE default

-----------------------------------------------------------------------------
\* Query (the query builder) and the adapter's base query

\* A builder whose raw() returns the query it was called on.
raw_KeepsQuery(query, data) == query

\* Query.raw(data): a copy of the query updated with data.
raw(query, data) == DictUpdate(query, data)

\* self.base_query = Query()
base_query == EmptyDict

\* The values a query dict holds: a plain value, or a reference to a nested
\* dict on the heap.  A copy of a query dict copies the references, not the
\* dicts they refer to.
Plain(v) == [kind |-> "value", value |-> v]
Ref(address) == [kind |-> "dict", ref |-> address]

\* Query.value(), read through the references.
QueryValue(query, nested) ==
    [f \in DOMAIN query |->
        IF query[f].kind = "dict" THEN nested[query[f].ref] ELSE query[f].value]

-----------------------------------------------------------------------------
\* The Statement object

\* Statement(**data): the object built from a document or from keyword
\* arguments.  Unknown keys (such as _id) are ignored, in_response_to
\* defaults to None, an id of 0 stands for "no backend identity", and
\* confidence is never taken from the data.
Statement(data) ==
    [id             |-> Get(data, "id", 0),
     text           |-> data["text"],
     in_response_to |-> Get(data, "in_response_to", Null),
     created_at     |-> data["created_at"],
     confidence     |-> 0]

\* statement.serialize(): the persisted fields of a statement; confidence
\* and the backend identity are left out.
serialize(s) ==
    [text           |-> s.text,
     in_response_to |-> s.in_response_to,
     created_at     |-> s.created_at]

\* mongo_to_object(statement_data)
mongo_to_object(statement_data) == Statement(statement_data)

-----------------------------------------------------------------------------
\* The collection operations of the backend, as the adapter uses them

\* A backend for which a query value of None matches a stored None only.
Matches_Strict(doc, query) ==
    \A f \in DOMAIN query : f \in DOMAIN doc /\ doc[f] = query[f]

\* Does a document satisfy an exact-match query?  A query value of None
\* matches a document whose field is None or missing.
Matches(doc, query) ==
    \A f \in DOMAIN query :
        IF query[f] = Null
        THEN f \notin DOMAIN doc \/ doc[f] = Null
        ELSE f \in DOMAIN doc /\ doc[f] = query[f]

\* The indexes of the documents of coll that satisfy P, in natural order.
RECURSIVE Indexes(_, _, _)
Indexes(coll, query, i) ==
    IF i > Len(coll) THEN <<>>
    ELSE (IF Matches(coll[i], query) THEN <<i>> ELSE <<>>) \o Indexes(coll, query, i + 1)

\* collection.find(query): the matching documents in natural order.
Find(coll, query) ==
    LET ix == Indexes(coll, query, 1) IN [k \in 1..Len(ix) |-> coll[ix[k]]]

\* collection.count()
count(coll) == Len(coll)

\* collection.insert_one(doc): the document gets the backend's _id and is
\* appended.
\* An insert that skips a document whose text is stored already.
InsertOne_Unique(coll, doc, id) ==
    IF \E i \in 1..Len(coll) : coll[i]["text"] = doc["text"]
    THEN coll
    ELSE Append(coll, DictUpdate(doc, [_id |-> id]))

InsertOne(coll, doc, id) == Append(coll, DictUpdate(doc, [_id |-> id]))

\* A delete that matches on in_response_to instead of on the query's text.
DeleteOne_ByResponse(coll, query) ==
    LET ix == Indexes(coll, [in_response_to |-> query["text"]], 1) IN
    IF ix = <<>> THEN coll
    ELSE [k \in 1..(Len(coll) - 1) |-> IF k < ix[1] THEN coll[k] ELSE coll[k + 1]]

\* A delete that ignores its query and deletes the first document.
DeleteOne_First(coll, query) ==
    IF coll = <<>> THEN coll ELSE Tail(coll)

\* collection.delete_one(query): the first matching document is deleted;
\* nothing happens when there is none.
DeleteOne(coll, query) ==
    LET ix == Indexes(coll, query, 1) IN
    IF ix = <<>> THEN coll
    ELSE [k \in 1..(Len(coll) - 1) |-> IF k < ix[1] THEN coll[k] ELSE coll[k + 1]]

\* A backend whose upsert inserts without looking for a match.
UpdateOneUpsert_AlwaysInserts(coll, query, data, id) ==
    InsertOne(coll, DictUpdate(query, data), id)

\* A backend whose upsert leaves a matched document as it was.
UpdateOneUpsert_KeepsMatched(coll, query, data, id) ==
    LET ix == Indexes(coll, query, 1) IN
    IF ix = <<>> THEN InsertOne(coll, DictUpdate(query, data), id) ELSE coll

\* UpdateOne(query, {'$set': data}, upsert=True): the first matching
\* document gets the fields of data set, the others it has are kept; when
\* none matches, a document made of the query's fields and data is inserted.
UpdateOneUpsert(coll, query, data, id) ==
    LET ix == Indexes(coll, query, 1) IN
    IF ix = <<>> THEN InsertOne(coll, DictUpdate(query, data), id)
    ELSE [coll EXCEPT ![ix[1]] = DictUpdate(coll[ix[1]], data)]

\* The order of text values.
TextOrder == [t \in Texts |-> IF t = "a" THEN 1 ELSE 2]

\* The sort key of a document for one field; a missing field sorts as null,
\* before every value.
SortKey(doc, field) ==
    IF field \notin DOMAIN doc THEN 0
    ELSE IF field = "text" THEN TextOrder[doc[field]]
    ELSE doc[field]

DESCENDING == 0 - 1
ASCENDING == 1

\* Does document a come strictly before document b under the ordering, a
\* sequence of <<field, direction>> pairs?  Earlier pairs take precedence.
RECURSIVE Before(_, _, _)
Before(a, b, ordering) ==
    IF ordering = <<>> THEN FALSE
    ELSE LET field == ordering[1][1]
             ka == SortKey(a, field) * ordering[1][2]
             kb == SortKey(b, field) * ordering[1][2]
         IN IF ka # kb THEN ka < kb ELSE Before(a, b, Tail(ordering))

\* cursor.sort(ordering): documents that compare equal keep their natural
\* order.
Sort(docs, ordering) ==
    LET precedes(i, j) == Before(docs[i], docs[j], ordering)
                          \/ (~Before(docs[j], docs[i], ordering) /\ i < j)
        rank(i) == 1 + Cardinality({j \in 1..Len(docs) : precedes(j, i)})
    IN [k \in 1..Len(docs) |-> docs[CHOOSE i \in 1..Len(docs) : rank(i) = k]]

-----------------------------------------------------------------------------
\* MongoDatabaseAdapter

\* list.remove(x): the list without the first occurrence of x.
RECURSIVE ListRemove(_, _)
ListRemove(list, x) ==
    IF list = <<>> THEN <<>>
    ELSE IF list[1] = x THEN Tail(list)
    ELSE <<list[1]>> \o ListRemove(Tail(list), x)

Contains(list, x) == \E i \in 1..Len(list) : list[i] = x

\* A filter that leaves created_at at the position it was requested at.
mongo_ordering_InPlace(order_by) ==
    [k \in 1..Len(order_by) |->
        IF order_by[k] = "created_at" THEN <<"created_at", DESCENDING>>
        ELSE <<order_by[k], ASCENDING>>]

\* The sort specification filter builds from order_by.
mongo_ordering(order_by) ==
    LET rest == IF Contains(order_by, "created_at")
                THEN ListRemove(order_by, "created_at") ELSE order_by
    IN (IF Contains(order_by, "created_at")
        THEN << <<"created_at", DESCENDING>> >> ELSE <<>>)
       \o [k \in 1..Len(rest) |-> <<rest[k], ASCENDING>>]

\* filter(**kwargs): the statements filter returns on a collection.
filter(coll, kwargs, order_by) ==
    LET query == raw(base_query, kwargs)
        matches == Find(coll, query)
        sorted == IF order_by # <<>> THEN Sort(matches, mongo_ordering(order_by))
                  ELSE matches
    IN [k \in 1..Len(sorted) |-> mongo_to_object(sorted[k])]

\* An adapter that returns the statements that are a response to something,
\* rather than the statements something is a response to.
get_response_statements_Repliers(coll) ==
    LET found == Find(coll, base_query)
        RECURSIVE Keep(_)
        Keep(i) == IF i > Len(found) THEN <<>>
                   ELSE (IF Get(found[i], "in_response_to", Null) # Null
                         THEN <<mongo_to_object(found[i])>> ELSE <<>>) \o Keep(i + 1)
    IN Keep(1)

\* get_response_statements(): the statements it returns on a collection.
get_response_statements(coll) ==
    LET responses == {coll[i]["in_response_to"] :
                        i \in {j \in 1..Len(coll) :
                                 /\ "in_response_to" \in DOMAIN coll[j]
                                 /\ coll[j]["in_response_to"] # Null}}
        ix == {i \in 1..Len(coll) :
                 /\ "text" \in DOMAIN coll[i]
                 /\ coll[i]["text"] \in responses
                 /\ Matches(coll[i], base_query)}
        RECURSIVE Keep(_)
        Keep(i) == IF i > Len(coll) THEN <<>>
                   ELSE (IF i \in ix THEN <<mongo_to_object(coll[i])>> ELSE <<>>)
                        \o Keep(i + 1)
    IN Keep(1)

Returned(value) == [raised |-> Null, value |-> value]

Raised(exception) == [raised |-> exception, value |-> <<>>]

-----------------------------------------------------------------------------
\* Inputs of the adapter calls

CreateInputs ==
    {KwargsOf([text |-> {t}, in_response_to |-> r, created_at |-> {c}, confidence |-> cf]) :
        t \in Texts, r \in {{}, {"a"}}, c \in Today, cf \in {{}, {5}}}

UpdateInputs ==
    [id : {0}, text : Texts, in_response_to : Responses, created_at : Today,
     confidence : Confidences]

FilterInputs ==
    {KwargsOf([text |-> t, in_response_to |-> r]) :
        t \in {{}, {"a"}, {"b"}}, r \in {{}, {Null}, {"a"}}}

\* Statements that differ in text and created_at only, and the order_by
\* lists filter is asked to sort them by.
OrderedCreateInputs ==
    {[text |-> t, created_at |-> c] : t \in Texts, c \in Times}

OrderBys ==
    {<<"created_at">>, <<"text">>, <<"text", "created_at">>,
     <<"created_at", "text">>, <<"-text">>}

-----------------------------------------------------------------------------
\* The state machine

\* The callers that use the adapter at the same time.
Callers == {1, 2}

Idle == [name |-> "idle", pc |-> "done"]

\* The adapter object before __init__ has run.
Uninitialized ==
    [state |-> "uninitialized", pc |-> "MongoClient", tuning |-> Null,
     statements |-> Null, base_query |-> Null]

\* The adapter object when __init__ has returned: it holds the handle of
\* the statements collection and the empty base query.
Ready(tuning) ==
    [state |-> "ready", pc |-> "done", tuning |-> tuning,
     statements |-> "statements", base_query |-> base_query]

\* An empty database, with no caller at work.
EmptyStore ==
    /\ statements = <<>>
    /\ next_id = 1
    /\ result = Returned(<<>>)
    /\ repeated_update = FALSE
    /\ heap = <<>>
    /\ calls = [c \in Callers |-> Idle]
    /\ log = <<>>
    /\ caller_order_by = <<>>

Init ==
    /\ EmptyStore
    /\ op = [name |-> "__init__"]
    /\ queries = <<base_query>>
    /\ adapter = Ready("ok")

Create(kwargs) ==
    /\ next_id <= MaxId
    /\ statements' = InsertOne(statements, kwargs, next_id)
    /\ next_id' = next_id + 1
    /\ op' = [name |-> "create", kwargs |-> kwargs]
    /\ result' = Returned(<<Statement(DictUpdate(kwargs, [_id |-> next_id, id |-> next_id]))>>)
    /\ repeated_update' = FALSE
    /\ UNCHANGED apart

Update(statement) ==
    LET query == [text |-> statement.text]
        inserts == Indexes(statements, query, 1) = <<>>
    IN /\ inserts => next_id <= MaxId
       /\ statements' = UpdateOneUpsert(statements, query, serialize(statement), next_id)
       /\ next_id' = IF inserts THEN next_id + 1 ELSE next_id
       /\ op' = [name |-> "update", statement |-> statement]
       /\ result' = Returned(<<statement>>)
       /\ repeated_update' = (/\ op.name = "update"
                               /\ op.statement.text = statement.text
                               /\ serialize(op.statement) # serialize(statement))
       /\ UNCHANGED apart

GetRandomEmpty ==
    /\ count(statements) < 1
    /\ op' = [name |-> "get_random"]
    /\ result' = Raised("EmptyDatabaseException")
    /\ repeated_update' = FALSE
    /\ UNCHANGED apart
    /\ UNCHANGED <<statements, next_id>>

\* A get_random that does not skip: limit(1) of the whole collection.
GetRandom_NoSkip(random_integer) ==
    /\ count(statements) >= 1
    /\ random_integer \in 0..(count(statements) - 1)
    /\ op' = [name |-> "get_random"]
    /\ result' = Returned(<<mongo_to_object(statements[1])>>)
    /\ repeated_update' = FALSE
    /\ UNCHANGED apart
    /\ UNCHANGED <<statements, next_id>>

GetRandom(random_integer) ==
    /\ count(statements) >= 1
    /\ random_integer \in 0..(count(statements) - 1)
    /\ op' = [name |-> "get_random"]
    /\ result' = Returned(<<mongo_to_object(statements[random_integer + 1])>>)
    /\ repeated_update' = FALSE
    /\ UNCHANGED apart
    /\ UNCHANGED <<statements, next_id>>

Remove(statement_text) ==
    /\ statements' = DeleteOne(statements, [text |-> statement_text])
    /\ op' = [name |-> "remove", statement_text |-> statement_text]
    /\ result' = Returned(<<>>)
    /\ repeated_update' = FALSE
    /\ UNCHANGED apart
    /\ UNCHANGED next_id

\* The list passed as order_by, as filter leaves it: the first created_at
\* has been removed from it.
OrderByAfter(order_by) ==
    IF Contains(order_by, "created_at")
    THEN ListRemove(order_by, "created_at") ELSE order_by

\* filter(**kwargs) with the list order_by among the keyword arguments;
\* same_list tells that the list is the object the call before was given.
FilterCall(kwargs, order_by, same_list) ==
    /\ op' = [name |-> "filter", kwargs |-> kwargs, order_by |-> order_by,
              same_list |-> same_list]
    /\ result' = Returned(filter(statements, kwargs, order_by))
    /\ caller_order_by' = OrderByAfter(order_by)
    /\ repeated_update' = FALSE
    /\ UNCHANGED <<statements, next_id, queries, heap, calls, log, adapter>>

\* filter called with a list the caller has just built.
Filter(kwargs, order_by) == FilterCall(kwargs, order_by, FALSE)

\* filter called with the list object the caller passed the last time.
FilterSameList(kwargs) == FilterCall(kwargs, caller_order_by, TRUE)

GetResponseStatements ==
    /\ op' = [name |-> "get_response_statements"]
    /\ result' = Returned(get_response_statements(statements))
    /\ repeated_update' = FALSE
    /\ UNCHANGED apart
    /\ UNCHANGED <<statements, next_id>>

\* A drop that deletes one document only.
Drop_DeletesOne ==
    /\ statements' = IF statements = <<>> THEN <<>> ELSE Tail(statements)
    /\ op' = [name |-> "drop", dropped |-> Len(statements)]
    /\ result' = Returned(<<>>)
    /\ repeated_update' = FALSE
    /\ UNCHANGED apart
    /\ UNCHANGED next_id

\* drop(): the database is dropped, and the collection with it. The call
\* record notes how many documents went.
Drop ==
    /\ statements' = <<>>
    /\ op' = [name |-> "drop", dropped |-> Len(statements)]
    /\ result' = Returned(<<>>)
    /\ repeated_update' = FALSE
    /\ UNCHANGED apart
    /\ UNCHANGED next_id

InFlight(c) == calls[c].pc # "done"

\* The statements concurrent callers update with.
ConcurrentUpdateInputs ==
    [id : {0}, text : Texts, in_response_to : Responses, created_at : Today,
     confidence : {0}]

\* update(statement), up to the backend call: the statement is serialized
\* and the upsert operation built.
UpdateCall(c, statement) ==
    /\ ~InFlight(c)
    /\ calls' = [d \in Callers |->
                   IF d = c
                   THEN [name |-> "update", pc |-> "bulk_write",
                         statement |-> statement, data |-> serialize(statement),
                         concurrent |-> \E e \in Callers \ {c} : InFlight(e)]
                   ELSE IF InFlight(d) /\ calls[d].name = "update"
                   THEN [calls[d] EXCEPT !.concurrent = TRUE]
                   ELSE calls[d]]
    /\ UNCHANGED <<statements, next_id, op, result, repeated_update, queries, heap,
                 log, adapter, caller_order_by>>

\* An update that decides between insert and modify on what the collection
\* held when the call began.
UpdateBulkWrite_ReadThenWrite(c) ==
    LET call == calls[c]
        query == [text |-> call.statement.text]
    IN /\ call.name = "update" /\ call.pc = "bulk_write"
       /\ next_id <= MaxId
       /\ statements' = IF call.concurrent
                        THEN InsertOne(statements, DictUpdate(query, call.data), next_id)
                        ELSE UpdateOneUpsert(statements, query, call.data, next_id)
       /\ next_id' = next_id + 1
       /\ calls' = [calls EXCEPT ![c].pc = "done"]
       /\ op' = [name |-> "update", statement |-> call.statement, caller |-> c]
       /\ result' = Returned(<<call.statement>>)
       /\ repeated_update' = FALSE
       /\ UNCHANGED <<queries, heap, log, adapter, caller_order_by>>

\* update(statement), the backend call and the return: bulk_write applies
\* the one upsert in a single backend operation.
UpdateBulkWrite(c) ==
    LET call == calls[c]
        query == [text |-> call.statement.text]
        inserts == Indexes(statements, query, 1) = <<>>
    IN /\ call.name = "update" /\ call.pc = "bulk_write"
       /\ inserts => next_id <= MaxId
       /\ statements' = UpdateOneUpsert(statements, query, call.data, next_id)
       /\ next_id' = IF inserts THEN next_id + 1 ELSE next_id
       /\ calls' = [calls EXCEPT ![c].pc = "done"]
       /\ op' = [name |-> "update", statement |-> call.statement, caller |-> c]
       /\ result' = Returned(<<call.statement>>)
       /\ repeated_update' = FALSE
       /\ UNCHANGED <<queries, heap, log, adapter, caller_order_by>>

ConcurrentCreateInputs == {[text |-> t, created_at |-> c] : t \in Texts, c \in Today}

\* Callers that update at the same time, on a collection that create calls
\* fill while no update is under way.
NextConcurrentUpdate ==
    \/ \E c \in Callers, statement \in ConcurrentUpdateInputs : UpdateCall(c, statement)
    \/ \E c \in Callers : UpdateBulkWrite(c)
    \/ \E kwargs \in ConcurrentCreateInputs :
          /\ \A c \in Callers : ~InFlight(c)
          /\ Create(kwargs)

SpecConcurrentUpdate == Init /\ [][NextConcurrentUpdate]_vars

\* What a BulkWriteError's details report.
Details == {"writeErrors", "writeConcernErrors"}

\* An update whose bulk-write error reaches the caller.
UpdateFails_Raises(statement, details, applied) ==
    LET query == [text |-> statement.text]
        inserts == applied /\ Indexes(statements, query, 1) = <<>>
    IN /\ Len(log) < MaxLog
       /\ inserts => next_id <= MaxId
       /\ statements' = IF applied
                        THEN UpdateOneUpsert(statements, query, serialize(statement), next_id)
                        ELSE statements
       /\ next_id' = IF inserts THEN next_id + 1 ELSE next_id
       /\ log' = log
       /\ op' = [name |-> "update", statement |-> statement, failed |-> details]
       /\ result' = Raised("BulkWriteError")
       /\ repeated_update' = FALSE
       /\ UNCHANGED <<queries, heap, calls, adapter, caller_order_by>>

\* update(statement) when bulk_write raises BulkWriteError: the details
\* are logged as an error and the statement is returned.  The backend may
\* have applied the write before it reported the error (a write concern
\* error) or not (a write error).
UpdateFails(statement, details, applied) ==
    LET query == [text |-> statement.text]
        inserts == applied /\ Indexes(statements, query, 1) = <<>>
    IN /\ Len(log) < MaxLog
       /\ inserts => next_id <= MaxId
       /\ statements' = IF applied
                        THEN UpdateOneUpsert(statements, query, serialize(statement), next_id)
                        ELSE statements
       /\ next_id' = IF inserts THEN next_id + 1 ELSE next_id
       /\ log' = Append(log, [level |-> "error", message |-> details])
       /\ op' = [name |-> "update", statement |-> statement, failed |-> details]
       /\ result' = Returned(<<statement>>)
       /\ repeated_update' = FALSE
       /\ UNCHANGED <<queries, heap, calls, adapter, caller_order_by>>

\* The adapter on a backend that reports bulk-write errors for some
\* updates.
NextFaulty ==
    \/ \E statement \in ConcurrentUpdateInputs, details \in Details, applied \in BOOLEAN :
          UpdateFails(statement, details, applied)
    \/ \E statement \in ConcurrentUpdateInputs : Update(statement)
    \/ \E statement_text \in Texts : Remove(statement_text)

SpecFaulty == Init /\ [][NextFaulty]_vars

\* How the tuning command can end: accepted, rejected by the server, or
\* never answered.
TuningOutcomes == {"ok", "OperationFailure", "ConnectionFailure"}

\* The construction frame: what __init__ leaves alone.
outside_init == <<statements, next_id, op, repeated_update, heap, calls, log, caller_order_by>>

\* __init__ up to the client: the URI is read and MongoClient built.
Connect ==
    /\ adapter.pc = "MongoClient"
    /\ adapter' = [adapter EXCEPT !.pc = "command"]
    /\ UNCHANGED <<result, queries>>
    /\ UNCHANGED outside_init

\* A construction that every failure of the tuning command ends.
Tune_Aborts(outcome) ==
    /\ adapter.pc = "command"
    /\ IF outcome # "ok"
       THEN /\ adapter' = [adapter EXCEPT !.pc = "raised", !.tuning = outcome]
            /\ result' = Raised(outcome)
       ELSE /\ adapter' = [adapter EXCEPT !.pc = "get_database", !.tuning = outcome]
            /\ result' = result
    /\ UNCHANGED queries
    /\ UNCHANGED outside_init

\* The tuning command inside try/except OperationFailure: a rejection is
\* passed over, any other exception leaves __init__.
Tune(outcome) ==
    /\ adapter.pc = "command"
    /\ IF outcome = "ConnectionFailure"
       THEN /\ adapter' = [adapter EXCEPT !.pc = "raised", !.tuning = outcome]
            /\ result' = Raised(outcome)
       ELSE /\ adapter' = [adapter EXCEPT !.pc = "get_database", !.tuning = outcome]
            /\ result' = result
    /\ UNCHANGED queries
    /\ UNCHANGED outside_init

\* The rest of __init__: the database, the statements collection and the
\* base query are set, and the constructor returns.
Handles ==
    /\ adapter.pc = "get_database"
    /\ adapter' = Ready(adapter.tuning)
    /\ queries' = Append(queries, base_query)
    /\ result' = Returned(<<>>)
    /\ UNCHANGED outside_init

InitUninitialized ==
    /\ EmptyStore
    /\ op = [name |-> "__init__"]
    /\ queries = <<>>
    /\ adapter = Uninitialized

\* A constructed adapter serving a call.
Serve ==
    \/ \E kwargs \in ConcurrentCreateInputs : Create(kwargs)
    \/ \E statement \in ConcurrentUpdateInputs : Update(statement)
    \/ \E statement_text \in Texts : Remove(statement_text)
    \/ Drop

\* Construction of the adapter, and its use once construction is over.
NextInit ==
    \/ Connect
    \/ \E outcome \in TuningOutcomes : Tune(outcome)
    \/ Handles
    \/ adapter.state = "ready" /\ Serve

\* __init__ runs its statements one after the other to its end.
SpecInit ==
    /\ InitUninitialized
    /\ [][NextInit]_vars
    /\ WF_vars(Connect)
    /\ WF_vars(\E outcome \in TuningOutcomes : Tune(outcome))
    /\ WF_vars(Handles)

\* get_random(), its first backend call: the count is read; an empty
\* collection ends the call with the exception, otherwise the random index
\* is drawn below the count read.
GetRandomCount(c, random_integer) ==
    /\ ~InFlight(c)
    /\ repeated_update' = FALSE
    /\ UNCHANGED <<statements, next_id, queries, heap, log, adapter, caller_order_by>>
    /\ IF count(statements) < 1
       THEN /\ random_integer = 0
            /\ calls' = [calls EXCEPT ![c] = [name |-> "get_random", pc |-> "done"]]
            /\ op' = [name |-> "get_random", caller |-> c]
            /\ result' = Raised("EmptyDatabaseException")
       ELSE /\ random_integer \in 0..(count(statements) - 1)
            /\ calls' = [calls EXCEPT ![c] = [name |-> "get_random", pc |-> "find",
                                               random_integer |-> random_integer]]
            /\ UNCHANGED <<op, result>>

\* get_random(), its second backend call and the return: the cursor that
\* skips random_integer documents and is limited to one is listed, and the
\* first element of the list is taken; on an empty list that raises.
GetRandomFind(c) ==
    LET call == calls[c]
        found == SubSeq(statements, call.random_integer + 1,
                        IF call.random_integer + 1 <= Len(statements)
                        THEN call.random_integer + 1 ELSE Len(statements))
    IN /\ call.name = "get_random" /\ call.pc = "find"
       /\ calls' = [calls EXCEPT ![c] = [name |-> "get_random", pc |-> "done"]]
       /\ op' = [name |-> "get_random", caller |-> c]
       /\ result' = IF found = <<>>
                    THEN Raised("IndexError")
                    ELSE Returned(<<mongo_to_object(found[1])>>)
       /\ repeated_update' = FALSE
       /\ UNCHANGED <<statements, next_id, queries, heap, log, adapter, caller_order_by>>

\* Callers in get_random while others create, remove and drop.
NextConcurrentRandom ==
    \/ \E c \in Callers, random_integer \in 0..MaxId : GetRandomCount(c, random_integer)
    \/ \E c \in Callers : GetRandomFind(c)
    \/ \E kwargs \in ConcurrentCreateInputs : Create(kwargs)
    \/ \E statement_text \in Texts : Remove(statement_text)
    \/ Drop

SpecConcurrentRandom == Init /\ [][NextConcurrentRandom]_vars

\* Query.raw(data) on the i-th query built.
QueryRaw(i, data) ==
    /\ Len(queries) < MaxQueries
    /\ queries' = Append(queries, raw(queries[i], data))
    /\ op' = [name |-> "raw", on |-> i, data |-> data]
    /\ result' = Returned(<<Len(queries) + 1>>)
    /\ repeated_update' = FALSE
    /\ UNCHANGED <<statements, next_id, heap, calls, log, adapter, caller_order_by>>

\* Query.statement_text_equals(statement_text) on the i-th query built.
QueryTextEquals(i, statement_text) ==
    /\ Len(queries) < MaxQueries
    /\ queries' = Append(queries, DictUpdate(queries[i], [text |-> Plain(statement_text)]))
    /\ op' = [name |-> "statement_text_equals", on |-> i, statement_text |-> statement_text]
    /\ result' = Returned(<<Len(queries) + 1>>)
    /\ repeated_update' = FALSE
    /\ UNCHANGED <<statements, next_id, heap, calls, log, adapter, caller_order_by>>

\* Query.statement_text_not_in(statements) on the i-th query built.  The
\* copy shares the nested dict under 'text' with the query it was copied
\* from; when 'text' holds a string, the item assignment on it raises.
QueryTextNotIn(i, excluded) ==
    LET fresh == "text" \notin DOMAIN queries[i]
        query == IF fresh
                 THEN DictUpdate(queries[i], [text |-> Ref(Len(heap) + 1)])
                 ELSE queries[i]
        heap1 == IF fresh THEN Append(heap, EmptyDict) ELSE heap
    IN /\ Len(queries) < MaxQueries
       /\ op' = [name |-> "statement_text_not_in", on |-> i, statements |-> excluded]
       /\ repeated_update' = FALSE
       /\ UNCHANGED <<statements, next_id, calls, log, adapter, caller_order_by>>
       /\ IF query["text"].kind # "dict"
          THEN /\ result' = Raised("TypeError")
               /\ UNCHANGED <<queries, heap>>
          ELSE LET address == query["text"].ref
                   nin == Get(heap1[address], "$nin", <<>>)
               IN /\ heap' = [heap1 EXCEPT ![address] =
                                 DictUpdate(@, [f \in {"$nin"} |-> nin \o excluded])]
                  /\ queries' = Append(queries, query)
                  /\ result' = Returned(<<Len(queries) + 1>>)

RawInputs == {[in_response_to |-> Plain("a")], [text |-> Plain("a")]}

Exclusions == {<<"a">>, <<"b">>}

\* The query builder used on the queries built so far.
NextQuery ==
    \/ \E i \in 1..Len(queries), data \in RawInputs : QueryRaw(i, data)
    \/ \E i \in 1..Len(queries), statement_text \in Texts :
          QueryTextEquals(i, statement_text)
    \/ \E i \in 1..Len(queries), excluded \in Exclusions :
          QueryTextNotIn(i, excluded)

SpecQuery == Init /\ [][NextQuery]_vars

Next ==
    \/ \E kwargs \in CreateInputs : Create(kwargs)
    \/ \E statement \in UpdateInputs : Update(statement)
    \/ GetRandomEmpty
    \/ \E random_integer \in 0..MaxId : GetRandom(random_integer)
    \/ \E statement_text \in Texts : Remove(statement_text)
    \/ \E kwargs \in FilterInputs : Filter(kwargs, <<>>)
    \/ GetResponseStatements
    \/ Drop

Spec == Init /\ [][Next]_vars

\* The adapter used to store statements of different ages and read them
\* back in a requested order.
NextOrder ==
    \/ \E kwargs \in OrderedCreateInputs : Create(kwargs)
    \/ \E order_by \in OrderBys : Filter(EmptyDict, order_by)
    \/ FilterSameList(EmptyDict)
    \/ \E statement_text \in Texts : Remove(statement_text)

SpecOrder == Init /\ [][NextOrder]_vars

-----------------------------------------------------------------------------
\* Properties

\* The stored documents whose text is t, in natural order.
Records(coll, t) == Find(coll, [text |-> t])

NoDuplicateText(coll) ==
    \A i, j \in 1..Len(coll) : i # j => coll[i]["text"] # coll[j]["text"]

SameExceptConfidence(a, b) ==
    /\ DOMAIN a = DOMAIN b
    /\ \A f \in (DOMAIN a) \ {"confidence"} : a[f] = b[f]

C2_OneRecordPerText == NoDuplicateText(statements)

\* C2, amended: every call other than a create of a text that is already
\* stored leaves the store without two records of the same text, if it had
\* none before; update in particular never adds a second record of a text.
C2_OnlyCreateDuplicates ==
    [][(/\ NoDuplicateText(statements)
        /\ ~(/\ op'.name = "create"
              /\ Records(statements, op'.kwargs["text"]) # <<>>))
       => NoDuplicateText(statements')]_vars

\* An update of a stored text has left two records of different texts.
C2_Witness ==
    /\ op.name = "update"
    /\ Len(statements) = 2
    /\ NoDuplicateText(statements)
    /\ next_id = 3
    /\ statements[1]["text"] = op.statement.text
    /\ statements[1]["in_response_to"] = "a"

\* The fields of a document other than the backend's _id.
StoredFields(doc) == [f \in (DOMAIN doc) \ {"_id"} |-> doc[f]]

\* C3, as stated: after two successive updates of one text with different
\* other fields, exactly one record has that text, and its fields are
\* those of the second call's serialized statement and no others.
C3_SecondUpdateReplaces ==
    repeated_update =>
        LET records == Records(statements, op.statement.text)
        IN /\ Len(records) = 1
           /\ StoredFields(records[1]) = serialize(op.statement)

\* C3, amended: when at most one record of the text was stored, the second
\* of two successive updates of that text with different other fields
\* leaves exactly one record of it; every field of the second call's
\* serialized statement has that call's value in it, and the fields the
\* record had that the serialized statement does not carry are kept.
C3_SecondUpdateSetsFields ==
    [][(/\ repeated_update'
        /\ Len(Records(statements, op'.statement.text)) <= 1)
       => LET before == Records(statements, op'.statement.text)
              records == Records(statements', op'.statement.text)
              data == serialize(op'.statement)
          IN /\ Len(before) = 1
             /\ Len(records) = 1
             /\ DOMAIN records[1] = (DOMAIN before[1]) \cup (DOMAIN data)
             /\ \A f \in DOMAIN data : records[1][f] = data[f]
             /\ \A f \in (DOMAIN before[1]) \ (DOMAIN data) :
                    records[1][f] = before[1][f]]_vars

\* Two successive updates have changed the one record of a text that a
\* create had inserted with a confidence; the record still carries it.
C3_Witness ==
    /\ repeated_update
    /\ Len(Records(statements, op.statement.text)) = 1
    /\ "confidence" \in DOMAIN Records(statements, op.statement.text)[1]
    /\ Records(statements, op.statement.text)[1]["in_response_to"]
         = op.statement.in_response_to

\* The stored documents that some stored document names in a non-null
\* in_response_to, in natural order.
RECURSIVE Referenced(_, _)
Referenced(coll, i) ==
    IF i > Len(coll) THEN <<>>
    ELSE (IF \E j \in 1..Len(coll) :
                /\ "in_response_to" \in DOMAIN coll[j]
                /\ coll[j]["in_response_to"] # Null
                /\ coll[j]["in_response_to"] = coll[i]["text"]
          THEN <<coll[i]>> ELSE <<>>) \o Referenced(coll, i + 1)

\* C4: get_response_statements returns exactly the stored statements whose
\* text is the non-null in_response_to of some stored statement.
C4_ResponseStatements ==
    op.name = "get_response_statements" =>
        LET referenced == Referenced(statements, 1)
        IN /\ result.raised = Null
           /\ result.value =
                [k \in 1..Len(referenced) |-> mongo_to_object(referenced[k])]

\* get_response_statements has returned the one statement another refers
\* to, whose own in_response_to is null, and not the one that refers to it.
C4_Witness ==
    /\ op.name = "get_response_statements"
    /\ Len(statements) = 2
    /\ \E i, j \in 1..2 :
          /\ statements[i]["text"] = "a"
          /\ Get(statements[i], "in_response_to", Null) = Null
          /\ statements[j]["text"] = "b"
          /\ Get(statements[j], "in_response_to", Null) = "a"
    /\ Len(result.value) = 1
    /\ result.value[1].text = "a"

\* C5: no stored record carries a confidence.
C5_ConfidenceNeverStored ==
    \A i \in 1..Len(statements) : "confidence" \notin DOMAIN statements[i]

Max(a, b) == IF a >= b THEN a ELSE b

\* C6, as stated: after remove(t), filter(text=t) returns no statements,
\* whatever the store held before.
C6_RemoveThenFilterEmpty ==
    op.name = "remove" =>
        filter(statements, [text |-> op.statement_text], <<>>) = <<>>

\* C6, amended: remove(t) leaves one record with text t fewer than there
\* were (none fewer when there was none), so filter(text=t) returns nothing
\* afterwards when at most one record with text t was stored before.
C6_RemoveDeletesOne ==
    [][op'.name = "remove"
       => LET t == op'.statement_text
              before == filter(statements, [text |-> t], <<>>)
              after == filter(statements', [text |-> t], <<>>)
          IN /\ Len(after) = Max(Len(before) - 1, 0)
             /\ Len(before) <= 1 => after = <<>>]_vars

\* Of two inserted records one is left, and the last call removed a text
\* the remaining record does not have.
C6_Witness ==
    /\ op.name = "remove"
    /\ next_id = 3
    /\ Len(statements) = 1
    /\ statements[1]["text"] # op.statement_text

\* The documents of coll whose text is not t, in natural order.
RECURSIVE Others(_, _)
Others(coll, t) ==
    IF coll = <<>> THEN <<>>
    ELSE (IF coll[1]["text"] # t THEN <<coll[1]>> ELSE <<>>) \o Others(Tail(coll), t)

\* C7: remove(t) raises nothing; it leaves the store unchanged when no
\* record has text t, and it never deletes or alters a record whose text
\* is not t.
C7_RemoveFrame ==
    [][op'.name = "remove"
       => LET t == op'.statement_text
          IN /\ result'.raised = Null
             /\ Records(statements, t) = <<>> => statements' = statements
             /\ Others(statements', t) = Others(statements, t)]_vars

\* A remove of a text that is not stored has left the two records ever
\* inserted in place.
C7_Witness ==
    /\ op.name = "remove"
    /\ next_id = 3
    /\ Len(statements) = 2
    /\ result.raised = Null
    /\ \A i \in 1..2 : statements[i]["text"] # op.statement_text

\* C8: get_random raises the empty-storage exception exactly when the
\* store is empty; otherwise it returns one stored statement, and every
\* stored statement is a result it can return.
C8_GetRandom ==
    /\ op.name = "get_random" =>
          /\ (result.raised = "EmptyDatabaseException") <=> (statements = <<>>)
          /\ statements # <<>> =>
                /\ result.raised = Null
                /\ Len(result.value) = 1
                /\ \E i \in 1..Len(statements) :
                      result.value[1] = mongo_to_object(statements[i])
    /\ (ENABLED GetRandomEmpty) <=> (statements = <<>>)
    /\ \A i \in 1..Len(statements) :
          ENABLED (/\ \E random_integer \in 0..MaxId : GetRandom(random_integer)
                   /\ result' = Returned(<<mongo_to_object(statements[i])>>))

\* get_random has returned the second of two stored statements that differ.
C8_Witness ==
    /\ op.name = "get_random"
    /\ Len(statements) = 2
    /\ mongo_to_object(statements[1]) # mongo_to_object(statements[2])
    /\ result.value = <<mongo_to_object(statements[2])>>

\* The number of times x occurs in a sequence.
CountIn(seq, x) == Cardinality({i \in 1..Len(seq) : seq[i] = x})

\* Two sequences hold the same elements the same number of times.
SameElements(s, t) ==
    /\ Len(s) = Len(t)
    /\ \A i \in 1..Len(s) : CountIn(s, s[i]) = CountIn(t, s[i])

\* The stored documents whose fields equal every value of kwargs, a field
\* a document does not carry counting as None; in natural order.
RECURSIVE Satisfying(_, _)
Satisfying(coll, kwargs) ==
    IF coll = <<>> THEN <<>>
    ELSE (IF \A f \in DOMAIN kwargs : Get(coll[1], f, Null) = kwargs[f]
          THEN <<mongo_to_object(coll[1])>> ELSE <<>>)
         \o Satisfying(Tail(coll), kwargs)

\* C9: filter returns exactly the stored statements whose fields equal
\* every given value (None matching a missing field): all of them when no
\* value is given, and every record of a text that several records share.
C9_FilterExactMatch ==
    op.name = "filter" =>
        /\ result.raised = Null
        /\ SameElements(result.value, Satisfying(statements, op.kwargs))

\* filter(in_response_to=None) has returned the record that carries no
\* in_response_to and left out the one that is a response.
C9_Witness ==
    /\ op.name = "filter"
    /\ op.kwargs = [in_response_to |-> Null]
    /\ Len(statements) = 2
    /\ "in_response_to" \notin DOMAIN statements[1]
    /\ Get(statements[2], "in_response_to", Null) = "a"
    /\ result.value = <<mongo_to_object(statements[1])>>

\* The requested fields other than created_at, in the order given.
RECURSIVE Remaining(_)
Remaining(order_by) ==
    IF order_by = <<>> THEN <<>>
    ELSE (IF order_by[1] = "created_at" THEN <<>> ELSE <<order_by[1]>>)
         \o Remaining(Tail(order_by))

\* Statement a is not after statement b when both are compared field by
\* field, ascending, the earlier fields taking precedence.
RECURSIVE AscendingPair(_, _, _)
AscendingPair(a, b, fields) ==
    IF fields = <<>> THEN TRUE
    ELSE LET ka == IF fields[1] = "text" THEN TextOrder[a.text] ELSE 0
             kb == IF fields[1] = "text" THEN TextOrder[b.text] ELSE 0
         IN ka < kb \/ (ka = kb /\ AscendingPair(a, b, Tail(fields)))

\* C10: when order_by contains created_at, at any position, the
\* statements come newest first, and statements of the same created_at
\* come in ascending order of the remaining requested fields.
C10_CreatedAtFirst ==
    (op.name = "filter" /\ Contains(op.order_by, "created_at")) =>
        /\ SameElements(result.value, Satisfying(statements, op.kwargs))
        /\ \A i, j \in 1..Len(result.value) :
              i < j =>
                \/ result.value[i].created_at > result.value[j].created_at
                \/ /\ result.value[i].created_at = result.value[j].created_at
                   /\ AscendingPair(result.value[i], result.value[j],
                                    Remaining(op.order_by))

\* Asked for text, then created_at, filter has put the newer statement
\* first although its text is the greater and it was stored last.
C10_Witness ==
    /\ op.name = "filter"
    /\ op.order_by = <<"text", "created_at">>
    /\ Len(statements) = 2
    /\ statements[1]["created_at"] < statements[2]["created_at"]
    /\ TextOrder[statements[1]["text"]] < TextOrder[statements[2]["text"]]
    /\ result.value = <<mongo_to_object(statements[2]), mongo_to_object(statements[1])>>

\* C11: order_by=['-text'] returns the statements in descending order of
\* text, and order_by=['text'] returns them in ascending order of text.
C11_PrefixDescends ==
    op.name = "filter" =>
        \A i, j \in 1..Len(result.value) :
            i < j =>
              /\ op.order_by = <<"text">> =>
                    TextOrder[result.value[i].text] <= TextOrder[result.value[j].text]
              /\ op.order_by = <<"-text">> =>
                    TextOrder[result.value[i].text] >= TextOrder[result.value[j].text]

\* C12: every Query operation that returns gives a new query, and leaves
\* the value of every query built before it, the base query included,
\* unchanged.
C12_QueriesImmutable ==
    [][/\ \A i \in 1..Len(queries) :
            QueryValue(queries'[i], heap') = QueryValue(queries[i], heap)
       /\ result'.raised = Null => Len(queries') = Len(queries) + 1]_vars

\* The values a query excludes from text.
Excluded(query, nested) ==
    IF "text" \in DOMAIN query /\ query["text"].kind = "dict"
    THEN LET nin == Get(nested[query["text"].ref], "$nin", <<>>)
         IN {nin[k] : k \in 1..Len(nin)}
    ELSE {}

\* C18: statement_text_not_in returns, on any query, a query that excludes
\* the values given and the values the query it was called on excluded.
C18_NotInAccumulates ==
    [][op'.name = "statement_text_not_in" =>
          /\ result'.raised = Null
          /\ Excluded(queries[op'.on], heap)
               \cup {op'.statements[k] : k \in 1..Len(op'.statements)}
             \subseteq Excluded(queries'[Len(queries')], heap')]_vars

\* Caller c's update has just written while the other caller's update of
\* the same text was under way or had been when it wrote.
LastOfTwoUpdates(c) ==
    /\ op.name = "update" /\ "caller" \in DOMAIN op /\ op.caller = c
    /\ \A d \in Callers :
          /\ calls[d].name = "update" /\ calls[d].pc = "done"
          /\ calls[d].concurrent
          /\ calls[d].statement.text = op.statement.text

\* C13, as stated: when concurrent updates of one text have ended, exactly
\* one record has that text, and it carries the fields of one of the calls.
C13_ConcurrentUpdatesOneRecord ==
    \A c \in Callers :
        LastOfTwoUpdates(c) =>
            LET records == Records(statements, op.statement.text)
            IN /\ Len(records) = 1
               /\ \E d \in Callers :
                     \A f \in DOMAIN calls[d].data : records[1][f] = calls[d].data[f]

\* C13, amended: each update's upsert is one backend operation; applied to
\* a store that holds at most one record with its text, it leaves exactly
\* one, carrying that call's fields, whatever other updates are under way -
\* so concurrent updates of one text on such a store leave one record
\* with the fields of the call that wrote last.
C13_UpsertIsOneStep ==
    [][\A c \in Callers :
         (/\ calls[c].pc = "bulk_write" /\ calls'[c].pc = "done"
          /\ Len(Records(statements, calls[c].statement.text)) <= 1)
         => LET records == Records(statements', calls[c].statement.text)
            IN /\ Len(records) = 1
               /\ \A f \in DOMAIN calls[c].data : records[1][f] = calls[c].data[f]
               /\ Len(statements') <= Len(statements) + 1]_vars

\* Two updates of one text that ran at the same time with different
\* in_response_to have both ended; the one record carries the last
\* writer's value.
C13_Witness ==
    \E c \in Callers :
        /\ LastOfTwoUpdates(c)
        /\ \E d \in Callers : calls[d].data # calls[c].data
        /\ Len(Records(statements, op.statement.text)) = 1
        /\ Records(statements, op.statement.text)[1]["in_response_to"]
             = calls[c].data.in_response_to

\* C14: right after drop() the store counts 0 and every filter returns
\* nothing; the call that follows a drop starts from the empty store: a
\* create or an update leaves exactly one record, a filter returns nothing
\* and get_random raises the empty-storage exception.
C14_DropEmpties ==
    [][/\ op'.name = "drop" =>
             /\ count(statements') = 0
             /\ \A kwargs \in FilterInputs : filter(statements', kwargs, <<>>) = <<>>
       /\ op.name = "drop" =>
             /\ op'.name \in {"create", "update"} => count(statements') = 1
             /\ op'.name = "filter" => result'.value = <<>>
             /\ op'.name = "get_random" => result'.raised = "EmptyDatabaseException"
             /\ op'.name = "get_response_statements" => result'.value = <<>>]_vars

\* drop() has emptied a store of two records.
C14_Witness ==
    /\ op.name = "drop"
    /\ op.dropped = 2
    /\ count(statements) = 0

\* C15: every create adds exactly one record, also when a record with the
\* same text is stored; the new record holds the fields passed, the records
\* stored before stay as they were, and the statement returned carries the
\* identity the backend gave the new record, which no other record has.
C15_CreateInserts ==
    [][op'.name = "create" =>
         LET new == statements'[Len(statements')]
         IN /\ count(statements') = count(statements) + 1
            /\ SubSeq(statements', 1, Len(statements)) = statements
            /\ StoredFields(new) = op'.kwargs
            /\ result'.raised = Null
            /\ Len(result'.value) = 1
            /\ result'.value[1].id = new["_id"]
            /\ result'.value[1].text = op'.kwargs["text"]
            /\ \A i \in 1..Len(statements) : statements[i]["_id"] # new["_id"]]_vars

\* create has stored a second record with the text of the first.
C15_Witness ==
    /\ op.name = "create"
    /\ count(statements) = 2
    /\ statements[1]["text"] = statements[2]["text"]
    /\ result.value[1].id = statements[2]["_id"]

\* C16: an update whose bulk write raised a bulk-write error hands the
\* error's details to the logger as one error entry, raises nothing and
\* returns the statement it was given.
C16_BulkWriteErrorLogged ==
    [][(op'.name = "update" /\ "failed" \in DOMAIN op') =>
          /\ log' = Append(log, [level |-> "error", message |-> op'.failed])
          /\ result'.raised = Null
          /\ result'.value = <<op'.statement>>]_vars

\* A second update has met a bulk-write error that left the store as it
\* was; both errors are in the log and the statement came back.
C16_Witness ==
    /\ op.name = "update"
    /\ "failed" \in DOMAIN op
    /\ Len(log) = 2
    /\ result.value = <<op.statement>>
    /\ Records(statements, op.statement.text) = <<>>

\* C17: the adapter becomes ready in one step of its construction and
\* stays ready; the step sets the statements collection and the empty base
\* query; a tuning command the server rejects (OperationFailure) does not
\* end the construction, which goes on and reaches ready.
C17_ReadyOnce ==
    /\ [][/\ adapter.state = "ready" => adapter'.state = "ready"
          /\ (adapter.state = "uninitialized" /\ adapter'.state = "ready") =>
                /\ adapter.pc = "get_database"
                /\ adapter'.statements = "statements"
                /\ adapter'.base_query = EmptyDict
                /\ queries' = <<EmptyDict>>
                /\ result'.raised = Null
          /\ (adapter.pc = "command" /\ adapter'.tuning = "OperationFailure") =>
                /\ adapter'.pc = "get_database"
                /\ result'.raised = Null]_vars
    /\ (adapter.tuning = "OperationFailure") ~> (adapter.state = "ready")

\* An adapter whose tuning command was rejected is ready and has stored a
\* statement.
C17_Witness ==
    /\ adapter.state = "ready"
    /\ adapter.tuning = "OperationFailure"
    /\ adapter.statements = "statements"
    /\ queries = <<base_query>>
    /\ op.name = "create"
    /\ count(statements) = 1

\* C19: a get_random call that other callers' removes and drops interleave
\* with ends by returning one statement or by raising the empty-storage
\* exception, and in no other way.
C19_GetRandomEnds ==
    (op.name = "get_random" /\ "caller" \in DOMAIN op) =>
        \/ result.raised = "EmptyDatabaseException"
        \/ result.raised = Null /\ Len(result.value) = 1

\* C20: a filter call that is passed the list object the filter call just
\* before it was passed, created_at in it, with the same predicates and
\* the store unchanged in between, returns the statements in the order
\* the first call returned them in.
C20_SameListSameOrder ==
    [][(/\ op.name = "filter" /\ op'.name = "filter"
        /\ op'.same_list
        /\ op'.kwargs = op.kwargs
        /\ Contains(op.order_by, "created_at"))
       => result' = result]_vars

====
